---------------------------- MODULE Spec2Model ----------------------------
(***************************************************************************)
(* QuantitativeReporting: the segment characteristics store, the           *)
(* characteristic lookup and the report save (SEG export, SR encoding,     *)
(* characteristics merge) of QuantitativeReportingWidget.                  *)
(***************************************************************************)
EXTENDS Integers, Sequences, FiniteSets, TLC

VARIABLES
    characteristics_config,    \* self.characteristics_config (the catalog)
    segment_characteristics,   \* self.segment_characteristics (the store)
    segmentation,              \* segments of the editor's segmentation node
    tableNode,                 \* self.tableNode (the selected report)
    readonly,                  \* the "readonly" attribute of each report node
    delayedAutoUpdateTimer,    \* the single-shot timer is running
    saveReportButton,          \* saveReportButton.enabled
    completeReportButton,      \* completeReportButton.enabled
    last_update,               \* locals of the last updateSegmentationCharacteristics
    save_run,                  \* what the last saveReport did
    dialog,                    \* the CharacteristicsWindow that OK has closed
    lookup_args,               \* arguments of a characteristic lookup
    lookup_result              \* what the lookup returned or raised

vars == <<characteristics_config, segment_characteristics, segmentation,
          tableNode, readonly, delayedAutoUpdateTimer, saveReportButton,
          completeReportButton, last_update, save_run, dialog, lookup_args,
          lookup_result>>

-----------------------------------------------------------------------------
(* Bounds *)

\* Segment label values are 1..MaxSegId.
MaxSegId == 2
\* A catalog of the lookup specification holds at most MaxCatalogLen entries.
MaxCatalogLen == 2
\* A catalog entry of the lookup specification holds at most MaxChoices choices.
MaxChoices == 2

SegIds == 1..MaxSegId
Reports == {"r1", "r2"}
NoNode == "None"

-----------------------------------------------------------------------------
(* The catalog (characteristics.json) *)

NA == "N/A"

\* A DICOM code: CodeValue, CodingSchemeDesignator, CodeMeaning.
Code(value, meaning) ==
    [CodeValue |-> value, CodingSchemeDesignator |-> "99QR", CodeMeaning |-> meaning]

\* One characteristic definition: its concept name code and its choices.
Characteristic(name, choices) ==
    [ConceptNameCodeSequence |-> name, choices |-> choices]

\* Finite sequences over S of length at most n.
SeqUpTo(S, n) == UNION {[1..k -> S] : k \in 0..n}

\* The catalog whose i-th entry has concept name names[i] and whose j-th choice
\* of entry i is labelled labels[i][j]; code values are made distinct by position.
MakeCatalog(names, labels) ==
    [i \in 1..Len(names) |->
        Characteristic(Code(i, names[i]),
                       [j \in 1..Len(labels[i]) |-> Code(10 * i + j, labels[i][j])])]

-----------------------------------------------------------------------------
(* _find_characteristics_from_concept_name_and_choice *)

NotCalled == [kind |-> "NotCalled"]
None == [kind |-> "None"]
Found(i, j) == [kind |-> "Found",
                ConceptNameCodeSequence |-> i.ConceptNameCodeSequence,
                ConceptCodeSequence |-> j]
\* ValueError(f'Concept name code (CodeMeaning={concept_name}) with choices
\* {choice_label} not found')
LookupValueError(concept_name, choice_label) ==
    [kind |-> "ValueError", concept_name |-> concept_name, choice_label |-> choice_label]

\* for j in i['choices']: if j['CodeMeaning'] == choice_label: return {...}
RECURSIVE ScanChoices(_, _, _)
ScanChoices(i, choice_label, n) ==
    IF n > Len(i.choices) THEN None
    ELSE IF i.choices[n].CodeMeaning = choice_label THEN Found(i, i.choices[n])
    ELSE ScanChoices(i, choice_label, n + 1)

\* A scan that stops at the first entry carrying the concept name.
RECURSIVE ScanCatalogFirstNameOnly(_, _, _, _)
ScanCatalogFirstNameOnly(concept_name, choice_label, config, m) ==
    IF m > Len(config) THEN LookupValueError(concept_name, choice_label)
    ELSE IF config[m].ConceptNameCodeSequence.CodeMeaning = concept_name
         THEN LET r == ScanChoices(config[m], choice_label, 1)
              IN  IF r.kind = "Found" THEN r
                  ELSE LookupValueError(concept_name, choice_label)
         ELSE ScanCatalogFirstNameOnly(concept_name, choice_label, config, m + 1)

\* for i in characteristics_config: if i[...]['CodeMeaning'] == concept_name: ...
\* falling out of both loops raises the ValueError.
RECURSIVE ScanCatalog(_, _, _, _)
ScanCatalog(concept_name, choice_label, config, m) ==
    IF m > Len(config) THEN LookupValueError(concept_name, choice_label)
    ELSE IF config[m].ConceptNameCodeSequence.CodeMeaning = concept_name
         THEN LET r == ScanChoices(config[m], choice_label, 1)
              IN  IF r.kind = "Found" THEN r
                  ELSE ScanCatalog(concept_name, choice_label, config, m + 1)
         ELSE ScanCatalog(concept_name, choice_label, config, m + 1)

\* The lookup with the 'N/A' test made after the scan instead of before it.
FindNAChecksLast(concept_name, choice_label, config) ==
    LET r == ScanCatalog(concept_name, choice_label, config, 1)
    IN  IF r.kind = "Found" THEN r
        ELSE IF choice_label = NA THEN None ELSE r

\* The lookup returning the first choice of the matching entry.
FindFirstChoice(concept_name, choice_label, config) ==
    LET r == ScanCatalog(concept_name, choice_label, config, 1)
    IN  IF choice_label = NA THEN None
        ELSE IF r.kind = "Found"
             THEN LET i == CHOOSE e \in {config[m] : m \in 1..Len(config)} :
                              e.ConceptNameCodeSequence = r.ConceptNameCodeSequence
                  IN  Found(i, i.choices[1])
             ELSE r

\* The lookup swallowing a miss instead of raising.
FindSwallowsMiss(concept_name, choice_label, config) ==
    LET r == ScanCatalog(concept_name, choice_label, config, 1)
    IN  IF choice_label = NA \/ r.kind # "Found" THEN None ELSE r

\* The lookup consulting only the first entry that carries the concept name.
FindFirstNameOnly(concept_name, choice_label, config) ==
    IF choice_label = NA THEN None
    ELSE ScanCatalogFirstNameOnly(concept_name, choice_label, config, 1)

_find_characteristics_from_concept_name_and_choice(concept_name, choice_label, config) ==
    IF choice_label = NA THEN None
    ELSE ScanCatalog(concept_name, choice_label, config, 1)

-----------------------------------------------------------------------------
(* Catalogs of the widget specification *)

\* A well-formed catalog: unique concept names, every characteristic has choices.
CatalogShapeMargin ==
    MakeCatalog(<<"Shape", "Margin">>, <<<<NA, "Round">>, <<"Smooth">>>>)
\* A catalog with a characteristic that has no choices, after one that has.
CatalogNoChoices == MakeCatalog(<<"Shape", "Margin">>, <<<<"Round">>, << >>>>)

Catalogs == {CatalogShapeMargin, CatalogNoChoices}

-----------------------------------------------------------------------------
(* Dictionaries: the store and its entries *)

EmptyDict == [k \in {} |-> k]
Restrict(d, keys) == [k \in (DOMAIN d) \cap keys |-> d[k]]
\* d[key] = value
DictSet(d, key, value) ==
    [k \in (DOMAIN d) \cup {key} |-> IF k = key THEN value ELSE d[k]]

\* sorted(keys): the ascending sequence of a set of integers.
RECURSIVE sorted(_)
sorted(keys) ==
    IF keys = {} THEN << >>
    ELSE LET least == CHOOSE k \in keys : \A other \in keys : k <= other
         IN  <<least>> \o sorted(keys \ {least})

\* The concept names of the catalog, in the order of their first occurrence:
\* the insertion order of the keys of characteristic_widgets and of an entry.
RECURSIVE NamesInOrder(_, _)
NamesInOrder(config, m) ==
    IF m > Len(config) THEN << >>
    ELSE LET name == config[m].ConceptNameCodeSequence.CodeMeaning
             rest == NamesInOrder(config, m + 1)
         IN  <<name>> \o SelectSeq(rest, LAMBDA n : n # name)

ConceptNames(config) ==
    {config[m].ConceptNameCodeSequence.CodeMeaning : m \in 1..Len(config)}

-----------------------------------------------------------------------------
(* Segments *)

SegmentStates == {"absent", "visible", "hidden"}
NoSegmentation == [id \in SegIds |-> "absent"]

AllSegments(seg) == {id \in SegIds : seg[id] # "absent"}
\* segmentEditorWidget.logic.getVisibleSegments(segmentationNode)
getVisibleSegments(seg) == {id \in SegIds : seg[id] = "visible"}
\* segmentEditorWidget.hiddenSegmentsAvailable()
hiddenSegmentsAvailable(seg) == \E id \in SegIds : seg[id] = "hidden"

-----------------------------------------------------------------------------
(* updateSegmentationCharacteristics: prune, then get-or-create *)

\* A prune that keeps the keys but resets the kept entries.
PruneResetsEntries(store, segment_ids) ==
    [s \in (DOMAIN store) \cap segment_ids |-> EmptyDict]

\* new_segment_characteristics =
\*     {s: c for s, c in self.segment_characteristics.items() if s in segment_ids}
Prune(store, segment_ids) == Restrict(store, segment_ids)

\* A get-or-create that gives every enumerated segment an empty entry.
GetOrCreateOverwrites(store, segments) ==
    [s \in (DOMAIN store) \cup segments |->
        IF s \in segments THEN EmptyDict ELSE store[s]]

\* if segmentID not in self.segment_characteristics:
\*     self.segment_characteristics[segmentID] = {}
GetOrCreate(store, segments) ==
    [s \in (DOMAIN store) \cup segments |->
        IF s \in DOMAIN store THEN store[s] ELSE EmptyDict]

NoUpdate == [ran |-> FALSE, event |-> "none", before |-> EmptyDict,
             segment_ids |-> {}, new_segment_characteristics |-> EmptyDict,
             rows |-> << >>, statistics |-> FALSE]

-----------------------------------------------------------------------------
(* The SR dataset and the characteristics merge of createDICOMSR *)

\* What the tid1500writer wrote into a per-segment content item.
MeasurementItem == [RelationshipType |-> "CONTAINS", ValueType |-> "NUM"]

\* ContentSequence[5].ContentSequence as the encoder wrote it: one content item
\* per segment of the SEG, each given here by its own ContentSequence.
EncodedSR(seg_count) == [i \in 1..seg_count |-> <<MeasurementItem>>]

CopyCode(code) ==
    [CodeValue |-> code.CodeValue,
     CodingSchemeDesignator |-> code.CodingSchemeDesignator,
     CodeMeaning |-> code.CodeMeaning]

create_dataset_from_characteristics(characteristics) ==
    [RelationshipType |-> "CONTAINS", ValueType |-> "CODE",
     ConceptNameCodeSequence |-> <<CopyCode(characteristics.ConceptNameCodeSequence)>>,
     ConceptCodeSequence |-> <<CopyCode(characteristics.ConceptCodeSequence)>>]

\* self.segment_characteristics[key].items(), in insertion order.
EntryItems(entry, config) ==
    SelectSeq(NamesInOrder(config, 1), LAMBDA name : name \in DOMAIN entry)

Min(a, b) == IF a <= b THEN a ELSE b

\* The (position, key, concept name) triples the two nested loops visit, in order:
\* zip(sr_ds.ContentSequence[5].ContentSequence, sorted keys) stops at the shorter.
RECURSIVE MergeWork(_, _, _, _, _)
MergeWork(sr_len, keys, store, config, i) ==
    IF i > Min(sr_len, Len(keys)) THEN << >>
    ELSE LET names == EntryItems(store[keys[i]], config)
         IN  [n \in 1..Len(names) |-> <<i, keys[i], names[n]>>]
             \o MergeWork(sr_len, keys, store, config, i + 1)

\* A loop that passes over a pair the catalog does not hold.
RECURSIVE MergeLoopSkipsUnknown(_, _, _, _, _)
MergeLoopSkipsUnknown(sr, work, n, store, config) ==
    IF n > Len(work) THEN [raised |-> FALSE, error |-> None, sr |-> sr]
    ELSE LET characteristics ==
                 _find_characteristics_from_concept_name_and_choice(
                     work[n][3], store[work[n][2]][work[n][3]], config)
         IN  IF characteristics.kind # "Found"
             THEN MergeLoopSkipsUnknown(sr, work, n + 1, store, config)
             ELSE MergeLoopSkipsUnknown(
                      [sr EXCEPT ![work[n][1]] =
                          Append(@, create_dataset_from_characteristics(characteristics))],
                      work, n + 1, store, config)

\* The loop body, from the n-th triple on: look the pair up, skip None, append
\* the coded item to the i-th content item; a ValueError leaves the loop.
RECURSIVE MergeLoop(_, _, _, _, _)
MergeLoop(sr, work, n, store, config) ==
    IF n > Len(work) THEN [raised |-> FALSE, error |-> None, sr |-> sr]
    ELSE LET i == work[n][1]
             concept_name == work[n][3]
             choice_label == store[work[n][2]][concept_name]
             characteristics ==
                 _find_characteristics_from_concept_name_and_choice(
                     concept_name, choice_label, config)
         IN  IF characteristics.kind = "ValueError"
             THEN [raised |-> TRUE, error |-> characteristics, sr |-> sr]
             ELSE IF characteristics.kind = "None"
             THEN MergeLoop(sr, work, n + 1, store, config)
             ELSE MergeLoop(
                      [sr EXCEPT ![i] =
                          Append(@, create_dataset_from_characteristics(characteristics))],
                      work, n + 1, store, config)

\* A count check that only rejects a SEG with fewer segments than the store has keys.
CountMismatchOnlyFewer(seg_count, keys) == seg_count < Len(keys)

\* if len(seg_ds.SegmentSequence) != len(sorted_segment_characteristics_keys): raise
CountMismatch(seg_count, keys) == seg_count # Len(keys)

\* The keys of the merge in descending order.
KeysDescending(store) ==
    LET up == sorted(DOMAIN store)
    IN  [i \in 1..Len(up) |-> up[Len(up) + 1 - i]]

\* The sorted keys without the greatest of them.
KeysWithoutGreatest(store) ==
    LET up == sorted(DOMAIN store)
    IN  SubSeq(up, 1, Len(up) - 1)

\* sorted_segment_characteristics_keys = sorted(self.segment_characteristics)
sorted_segment_characteristics_keys(store) == sorted(DOMAIN store)

\* createDICOMSR from the run of the tid1500writer on: what it raised, the
\* sorted keys it computed, the SR file as the encoder wrote it (encoder_sr) and
\* as it is on disk when createDICOMSR ends (sr_file), the dataset sr_ds in
\* memory, and whether the SR was read and saved.
createDICOMSR(seg_count, store, config, cli_status) ==
    LET keys == sorted_segment_characteristics_keys(store)
        encoder_sr == EncodedSR(seg_count)
        merged == MergeLoop(encoder_sr,
                            MergeWork(Len(encoder_sr), keys, store, config, 1),
                            1, store, config)
        base == [raised |-> "cli", error |-> None, encoded |-> FALSE,
                 keys |-> << >>, encoder_sr |-> << >>, sr_file |-> << >>,
                 sr_ds |-> << >>, sr_read |-> FALSE, sr_saved |-> FALSE]
        counted == [base EXCEPT !.encoded = TRUE, !.keys = keys,
                                !.encoder_sr = encoder_sr, !.sr_file = encoder_sr]
    IN  IF cli_status # "Completed" THEN base
        ELSE IF CountMismatch(seg_count, keys)
        THEN [counted EXCEPT !.raised = "count"]
        ELSE IF merged.raised
        THEN [counted EXCEPT !.raised = "lookup", !.error = merged.error,
                             !.sr_ds = merged.sr, !.sr_read = TRUE]
        ELSE [counted EXCEPT !.raised = "none", !.sr_ds = merged.sr,
                             !.sr_file = merged.sr,
                             !.sr_read = TRUE, !.sr_saved = TRUE]

-----------------------------------------------------------------------------
(* createSEG and saveReport *)

ExportOutcomes == {"ok", "MissingAttributeError", "EmptySegmentsFoundError",
                   "NoNonEmptySegmentsFoundError"}
CliStatuses == {"Completed", "CompletedWithErrors"}

\* segmentIDs: None (every segment) unless hidden segments exist and the user
\* declines to export them, then the visible segments.
ExportedSegments(seg, export_hidden) ==
    IF hiddenSegmentsAvailable(seg) /\ ~export_hidden
    THEN getVisibleSegments(seg)
    ELSE AllSegments(seg)

\* createSEG: the exporter's faults are re-raised as ValueError; after a clean
\* export the SEG file is inserted into slicer.dicomDatabase.
createSEG(seg, export_hidden, export_outcome) ==
    LET exported == ExportedSegments(seg, export_hidden)
    IN  IF export_outcome # "ok"
        THEN [raised |-> "export", seg_count |-> 0, database |-> {}]
        ELSE [raised |-> "none", seg_count |-> Cardinality(exported),
              database |-> {"SEG"}]

\* cleanupTemporaryData that neither cleans up nor drops the handle.
CleanupKeepsExporter(dicomSegmentationExporter) ==
    [cleanup_calls |-> 0, dicomSegmentationExporter |-> dicomSegmentationExporter]

\* cleanupTemporaryData: if self.dicomSegmentationExporter: cleanup();
\* self.dicomSegmentationExporter = None
cleanupTemporaryData(dicomSegmentationExporter) ==
    [cleanup_calls |-> IF dicomSegmentationExporter # "None" THEN 1 ELSE 0,
     dicomSegmentationExporter |-> "None"]

NoSave == [ran |-> FALSE, completed |-> FALSE, confirmed |-> FALSE,
           result |-> "none", err |-> "none",
           error |-> None, exporter_created |-> FALSE, cleanup_calls |-> 0,
           seg_count |-> 0, encoded |-> FALSE, keys |-> << >>,
           encoder_sr |-> << >>, sr_file |-> << >>, sr_ds |-> << >>,
           sr_read |-> FALSE, sr_saved |-> FALSE, database |-> {},
           indexed |-> {}, dicomSegmentationExporter |-> "None"]

\* saveReport(completed): what it returned or raised, and what it left behind.
\* result is "success" for (True, None), "failure" for (False, reason) and
\* "raised" when an exception leaves saveReport; database holds what this run
\* put into slicer.dicomDatabase, indexed what of it went through the indexer.
saveReport(completed, confirmed, export_hidden, export_outcome, cli_status, seg, store, config) ==
    LET seg_run == createSEG(seg, export_hidden, export_outcome)
        sr_run == createDICOMSR(seg_run.seg_count, store, config, cli_status)
        started == [NoSave EXCEPT !.ran = TRUE, !.completed = completed,
                                  !.confirmed = confirmed]
        finally == cleanupTemporaryData("DICOMSegmentationExporter")
        exported == [started EXCEPT !.exporter_created = TRUE,
                                    !.cleanup_calls = finally.cleanup_calls,
                                    !.dicomSegmentationExporter =
                                        finally.dicomSegmentationExporter,
                                    !.seg_count = seg_run.seg_count,
                                    !.database = seg_run.database]
        encoded == [exported EXCEPT !.error = sr_run.error,
                                    !.encoded = sr_run.encoded,
                                    !.keys = sr_run.keys,
                                    !.sr_ds = sr_run.sr_ds,
                                    !.encoder_sr = sr_run.encoder_sr,
                                    !.sr_file = sr_run.sr_file,
                                    !.sr_read = sr_run.sr_read,
                                    !.sr_saved = sr_run.sr_saved]
    IN  IF ~confirmed
        THEN [started EXCEPT !.result = "failure", !.err = "canceled"]
        ELSE IF seg_run.raised # "none"
        THEN [exported EXCEPT !.result = "failure", !.err = "export"]
        ELSE IF sr_run.raised = "cli"
        THEN [encoded EXCEPT !.result = "raised", !.err = "cli"]
        ELSE IF sr_run.raised # "none"
        THEN [encoded EXCEPT !.result = "failure", !.err = sr_run.raised]
        ELSE [encoded EXCEPT !.result = "success",
                             !.indexed = {"SEG", "SR"},
                             !.database = seg_run.database \cup {"SEG", "SR"}]

\* The inputs of one save: the answers of the user and of the collaborators.
\* An export of no segment ends with NoNonEmptySegmentsFoundError.
\* The question about hidden segments is asked only when there are some, and
\* what is not reached has no answer: a cancelled dialog asks nothing more, a
\* failed export runs no encoder. The metadata dialog can be cancelled whatever
\* the segmentation holds.
SaveInputs ==
    {in \in [confirmed : BOOLEAN, export_hidden : BOOLEAN,
             export_outcome : ExportOutcomes, cli_status : CliStatuses] :
        /\ (in.confirmed /\ in.export_outcome = "ok") =>
               ExportedSegments(segmentation, in.export_hidden) # {}
        /\ in.export_hidden => in.confirmed /\ hiddenSegmentsAvailable(segmentation)
        /\ in.export_outcome # "ok" => in.confirmed
        /\ in.cli_status # "Completed" => in.confirmed /\ in.export_outcome = "ok"}

RunSaveIgnoresCancel(completed, in) ==
    [saveReport(completed, TRUE, in.export_hidden, in.export_outcome,
                in.cli_status, segmentation, segment_characteristics,
                characteristics_config) EXCEPT !.confirmed = in.confirmed]

RunSave(completed, in) ==
    saveReport(completed, in.confirmed, in.export_hidden, in.export_outcome,
               in.cli_status, segmentation, segment_characteristics,
               characteristics_config)

-----------------------------------------------------------------------------
(* The widget after construction and setup *)

NoLookup == [concept_name |-> "", choice_label |-> ""]

\* No characteristics dialog was closed with OK in the last step.
NoDialog == [accepted |-> FALSE, segment_index |-> 0, selection |-> EmptyDict]

WidgetInit ==
    /\ segment_characteristics = EmptyDict
    /\ segmentation = NoSegmentation
    /\ tableNode = NoNode
    /\ readonly = [r \in Reports |-> FALSE]
    /\ delayedAutoUpdateTimer = FALSE
    /\ saveReportButton = FALSE
    /\ completeReportButton = FALSE
    /\ last_update = NoUpdate
    /\ save_run = NoSave
    /\ dialog = NoDialog

Init ==
    /\ characteristics_config \in Catalogs
    /\ WidgetInit
    /\ lookup_args = NoLookup
    /\ lookup_result = NotCalled

\* last_update, save_run and dialog describe the handler that ran in the last
\* step only.
lookupVars == <<characteristics_config, lookup_args, lookup_result>>
NoUpdateRan == last_update' = NoUpdate
NoSaveRan == save_run' = NoSave
NoDialogRan == dialog' = NoDialog
\* A segment event was raised in the last step and no refresh has run in it.
EventRaised(event) == last_update' = [NoUpdate EXCEPT !.event = event]

-----------------------------------------------------------------------------
(* Segmentation events *)

\* onSegmentationNodeChanged with the import widget not busy:
\* enableReportButtons(True); self.delayedAutoUpdateTimer.start()
onSegmentationNodeChanged ==
    /\ saveReportButton' = TRUE
    /\ completeReportButton' = TRUE
    /\ delayedAutoUpdateTimer' = TRUE

\* vtkSegmentation.SegmentAdded on the observed segmentation.
SegmentAdded(id) ==
    /\ tableNode # NoNode
    /\ segmentation[id] = "absent"
    /\ segmentation' = [segmentation EXCEPT ![id] = "visible"]
    /\ onSegmentationNodeChanged
    /\ EventRaised("SegmentAdded") /\ NoSaveRan /\ NoDialogRan
    /\ UNCHANGED <<segment_characteristics, tableNode, readonly, lookupVars>>

\* vtkSegmentation.SegmentRemoved on the observed segmentation.
SegmentRemoved(id) ==
    /\ tableNode # NoNode
    /\ segmentation[id] # "absent"
    /\ segmentation' = [segmentation EXCEPT ![id] = "absent"]
    /\ onSegmentationNodeChanged
    /\ EventRaised("SegmentRemoved") /\ NoSaveRan /\ NoDialogRan
    /\ UNCHANGED <<segment_characteristics, tableNode, readonly, lookupVars>>

\* vtkSegmentation.SegmentModified or RepresentationModified.
SegmentModified ==
    /\ tableNode # NoNode
    /\ AllSegments(segmentation) # {}
    /\ onSegmentationNodeChanged
    /\ EventRaised("SegmentModified") /\ NoSaveRan /\ NoDialogRan
    /\ UNCHANGED <<segmentation, segment_characteristics, tableNode, readonly,
                   lookupVars>>

\* The user shows or hides a segment: a change of the display node, which is
\* none of the observed segmentation events.
SegmentVisibilityChanged(id) ==
    /\ tableNode # NoNode
    /\ segmentation[id] # "absent"
    /\ segmentation' = [segmentation EXCEPT
                           ![id] = IF @ = "visible" THEN "hidden" ELSE "visible"]
    /\ NoUpdateRan /\ NoSaveRan /\ NoDialogRan
    /\ UNCHANGED <<segment_characteristics, tableNode, readonly,
                   delayedAutoUpdateTimer, saveReportButton, completeReportButton,
                   lookupVars>>

\* A segment import: the segment events raised while the import widget is busy
\* return at once; its SuccessEvent calls onSegmentationNodeChanged, which
\* returns at once too when the widget is still busy then; its FailedEvent
\* (onImportFailed) only shows an error.
ImportSegment(id, busy) ==
    /\ tableNode # NoNode
    /\ segmentation[id] = "absent"
    /\ segmentation' = [segmentation EXCEPT ![id] = "visible"]
    /\ IF busy
       THEN UNCHANGED <<saveReportButton, completeReportButton,
                        delayedAutoUpdateTimer>>
       ELSE onSegmentationNodeChanged
    /\ EventRaised("SegmentAdded") /\ NoSaveRan /\ NoDialogRan
    /\ UNCHANGED <<segment_characteristics, tableNode, readonly, lookupVars>>

-----------------------------------------------------------------------------
(* The delayed auto update *)

\* updateMeasurementsTable(triggered) with the Auto Update checkbox checked or
\* not: TRUE when the statistics are recomputed, FALSE when it returns at once.
updateMeasurementsTable(checked, triggered) == checked \/ triggered

\* updateSegmentationCharacteristics on the visible segments of the editor's
\* segmentation node; rows are the segments a label and a button were added
\* for, after the rows of the run before were removed. statistics tells
\* whether updateMeasurementsTable recomputed the statistics just before.
updateSegmentationCharacteristics(statistics) ==
    LET segments == getVisibleSegments(segmentation)
        segment_ids == segments
        new_segment_characteristics == Prune(segment_characteristics, segment_ids)
    IN  /\ segment_characteristics' = GetOrCreate(new_segment_characteristics, segments)
        /\ last_update' = [ran |-> TRUE, event |-> "none",
                           before |-> segment_characteristics,
                           segment_ids |-> segment_ids,
                           new_segment_characteristics |-> new_segment_characteristics,
                           rows |-> sorted(segments),
                           statistics |-> statistics]

\* The callback returns before the store refresh when Auto Update is unchecked.
TimerFiredSkipsWhenUnchecked(checked) ==
    /\ delayedAutoUpdateTimer
    /\ delayedAutoUpdateTimer' = FALSE
    /\ IF checked
       THEN updateSegmentationCharacteristics(TRUE)
       ELSE NoUpdateRan /\ UNCHANGED segment_characteristics
    /\ NoSaveRan /\ NoDialogRan
    /\ UNCHANGED <<segmentation, tableNode, readonly, saveReportButton,
                   completeReportButton, lookupVars>>

\* The timer fires: updateMeasurementsTableAndSegmentationCharacteristics with
\* triggered=False, the Auto Update checkbox being checked or not.
TimerFired(checked) ==
    /\ delayedAutoUpdateTimer
    /\ delayedAutoUpdateTimer' = FALSE
    /\ updateSegmentationCharacteristics(updateMeasurementsTable(checked, FALSE))
    /\ NoSaveRan /\ NoDialogRan
    /\ UNCHANGED <<segmentation, tableNode, readonly, saveReportButton,
                   completeReportButton, lookupVars>>

\* The timer fires with no report selected and the statistics or the segment
\* enumeration raise on the missing node: the store is not refreshed.
TimerFiredNoNode ==
    /\ delayedAutoUpdateTimer
    /\ tableNode = NoNode
    /\ delayedAutoUpdateTimer' = FALSE
    /\ NoUpdateRan /\ NoSaveRan /\ NoDialogRan
    /\ UNCHANGED <<segmentation, segment_characteristics, tableNode, readonly,
                   saveReportButton, completeReportButton, lookupVars>>

-----------------------------------------------------------------------------
(* Report selection *)

\* The segments a newly selected report's segmentation node can hold. They come
\* up visible; SegmentVisibilityChanged hides any of them without another
\* handler running, so every mix of visible and hidden segments is reached.
ReferencedSegmentations == [SegIds -> {"absent", "visible"}]

\* onMeasurementReportSelected(node), node another report or None; segs are the
\* segments of the segmentation node the report references (empty when the node
\* is created now, none without a report). With its postCall
\* refreshUIElementsAvailability.
onMeasurementReportSelected(node, segs) ==
    /\ node # tableNode
    /\ node = NoNode => segs = NoSegmentation
    /\ tableNode' = node
    /\ IF node = NoNode
       THEN /\ segmentation' = NoSegmentation
            /\ saveReportButton' = FALSE
            /\ completeReportButton' = FALSE
            /\ UNCHANGED delayedAutoUpdateTimer
       ELSE /\ segmentation' = segs
            /\ IF readonly[node]
               THEN /\ saveReportButton' = FALSE
                    /\ completeReportButton' = FALSE
                    /\ UNCHANGED delayedAutoUpdateTimer
               ELSE onSegmentationNodeChanged
    /\ NoUpdateRan /\ NoSaveRan /\ NoDialogRan
    /\ UNCHANGED <<segment_characteristics, readonly, lookupVars>>

-----------------------------------------------------------------------------
(* CharacteristicsWindow *)

\* characteristic_widgets[char_name]: the combo box of the last catalog entry
\* with that concept name.
LastWidget(config, name) ==
    LET m == CHOOSE x \in 1..Len(config) :
                 /\ config[x].ConceptNameCodeSequence.CodeMeaning = name
                 /\ \A y \in 1..Len(config) :
                        config[y].ConceptNameCodeSequence.CodeMeaning = name => y <= x
    IN  config[m]

\* The texts widget.currentText can have: an item of the combo box, or the
\* empty string when it has none.
CurrentTexts(characteristic) ==
    IF Len(characteristic.choices) = 0 THEN {""}
    ELSE {characteristic.choices[j].CodeMeaning : j \in 1..Len(characteristic.choices)}

AllTexts(config) ==
    UNION {CurrentTexts(config[m]) : m \in 1..Len(config)}

\* What the combo boxes show when the dialog opens on an entry: a combo box is
\* on its first item, or empty when it has none, and setCurrentText moves it to
\* the stored label when that is one of its items.
PreSelected(entry, config) ==
    [name \in ConceptNames(config) |->
        LET characteristic == LastWidget(config, name)
        IN  IF name \in DOMAIN entry /\ entry[name] \in CurrentTexts(characteristic)
            THEN entry[name]
            ELSE IF Len(characteristic.choices) = 0 THEN ""
            ELSE characteristic.choices[1].CodeMeaning]

\* What the combo boxes can show when OK is pressed.
Selections(config) ==
    {sel \in [ConceptNames(config) -> AllTexts(config)] :
        \A name \in ConceptNames(config) :
            sel[name] \in CurrentTexts(LastWidget(config, name))}

\* _set_characteristics_data_and_close on the entry the dialog was opened with.
SetCharacteristics(entry, sel) ==
    [name \in (DOMAIN entry) \cup (DOMAIN sel) |->
        IF name \in DOMAIN sel THEN sel[name] ELSE entry[name]]

\* The dialog closed with OK: the segment it was opened for and what its combo
\* boxes showed.
DialogAccepted(segment_index, sel) ==
    [accepted |-> TRUE, segment_index |-> segment_index, selection |-> sel]

\* A dialog whose OK writes into a dictionary that all entries share.
DialogOKSharedEntries(segment_index, sel) ==
    /\ segment_index \in DOMAIN segment_characteristics
    /\ sel \in Selections(characteristics_config)
    /\ segment_characteristics' =
           [k \in DOMAIN segment_characteristics |->
               SetCharacteristics(segment_characteristics[k], sel)]
    /\ dialog' = DialogAccepted(segment_index, sel)
    /\ NoUpdateRan /\ NoSaveRan
    /\ UNCHANGED <<segmentation, tableNode, readonly, delayedAutoUpdateTimer,
                   saveReportButton, completeReportButton, lookupVars>>

\* open_characteristic_window(segment_index), closed with OK.
DialogOK(segment_index, sel) ==
    /\ segment_index \in DOMAIN segment_characteristics
    /\ sel \in Selections(characteristics_config)
    /\ segment_characteristics' =
           DictSet(segment_characteristics, segment_index,
                   SetCharacteristics(segment_characteristics[segment_index], sel))
    /\ dialog' = DialogAccepted(segment_index, sel)
    /\ NoUpdateRan /\ NoSaveRan
    /\ UNCHANGED <<segmentation, tableNode, readonly, delayedAutoUpdateTimer,
                   saveReportButton, completeReportButton, lookupVars>>

\* open_characteristic_window(segment_index), closed without OK.
DialogClosed(segment_index) ==
    /\ segment_index \in DOMAIN segment_characteristics
    /\ NoUpdateRan /\ NoSaveRan /\ NoDialogRan
    /\ UNCHANGED <<segmentation, segment_characteristics, tableNode, readonly,
                   delayedAutoUpdateTimer, saveReportButton, completeReportButton,
                   lookupVars>>

-----------------------------------------------------------------------------
(* Save Report and Complete Report *)

\* A Save Report click whose save prunes the store to the visible segments.
SaveClickedPrunesStore(in) ==
    /\ saveReportButton
    /\ save_run' = RunSave(FALSE, in)
    /\ saveReportButton' =
           IF save_run'.result = "raised" THEN saveReportButton
           ELSE save_run'.result # "success"
    /\ segment_characteristics' =
           Prune(segment_characteristics, getVisibleSegments(segmentation))
    /\ NoUpdateRan /\ NoDialogRan
    /\ UNCHANGED <<segmentation, tableNode, readonly,
                   delayedAutoUpdateTimer, completeReportButton, lookupVars>>

onSaveReportButtonClicked(in) ==
    /\ saveReportButton
    /\ save_run' = RunSave(FALSE, in)
    /\ saveReportButton' =
           IF save_run'.result = "raised" THEN saveReportButton
           ELSE save_run'.result # "success"
    /\ NoUpdateRan /\ NoDialogRan
    /\ UNCHANGED <<segmentation, segment_characteristics, tableNode, readonly,
                   delayedAutoUpdateTimer, completeReportButton, lookupVars>>

onCompleteReportButtonClicked(in) ==
    /\ completeReportButton
    /\ save_run' = RunSave(TRUE, in)
    /\ IF save_run'.result = "raised"
       THEN UNCHANGED <<saveReportButton, completeReportButton, readonly>>
       ELSE /\ saveReportButton' = (save_run'.result # "success")
            /\ completeReportButton' = (save_run'.result # "success")
            /\ readonly' = IF save_run'.result = "success"
                           THEN [readonly EXCEPT ![tableNode] = TRUE]
                           ELSE readonly
    /\ NoUpdateRan /\ NoDialogRan
    /\ UNCHANGED <<segmentation, segment_characteristics, tableNode,
                   delayedAutoUpdateTimer, lookupVars>>

-----------------------------------------------------------------------------
(* The widget specification *)

Next ==
    \/ \E id \in SegIds : SegmentAdded(id)
    \/ \E id \in SegIds : SegmentRemoved(id)
    \/ SegmentModified
    \/ \E id \in SegIds : SegmentVisibilityChanged(id)
    \/ \E id \in SegIds, busy \in BOOLEAN : ImportSegment(id, busy)
    \/ \E checked \in BOOLEAN : TimerFired(checked)
    \/ TimerFiredNoNode
    \/ \E node \in Reports \cup {NoNode}, segs \in ReferencedSegmentations :
           onMeasurementReportSelected(node, segs)
    \/ \E id \in SegIds, sel \in Selections(characteristics_config) : DialogOK(id, sel)
    \/ \E id \in SegIds : DialogClosed(id)
    \/ \E in \in SaveInputs : onSaveReportButtonClicked(in)
    \/ \E in \in SaveInputs : onCompleteReportButtonClicked(in)

Spec == Init /\ [][Next]_vars

-----------------------------------------------------------------------------
(* The lookup specification: the lookup applied to bounded catalogs *)

CatalogNames == {"Shape", "Margin"}
CatalogLabels == {NA, "Round"}
RequestedLabels == {NA, "Round", "Irregular"}

ChoiceLists == SeqUpTo(CatalogLabels, MaxChoices)

NotLoaded == [kind |-> "NotLoaded"]
widgetVars == <<segment_characteristics, segmentation, tableNode, readonly,
                delayedAutoUpdateTimer, saveReportButton, completeReportButton,
                last_update, save_run, dialog>>

LookupInit ==
    /\ characteristics_config = << >>
    /\ lookup_args = NoLookup
    /\ lookup_result = NotLoaded
    /\ WidgetInit

\* __init__ reads characteristics.json: self.characteristics_config = json.load(file)
\* Any catalog of at most MaxCatalogLen entries: concept names and choice
\* labels may repeat, an entry may have no choices.
LoadCatalog ==
    /\ lookup_result = NotLoaded
    /\ \E k \in 0..MaxCatalogLen :
           \E names \in [1..k -> CatalogNames], labels \in [1..k -> ChoiceLists] :
               characteristics_config' = MakeCatalog(names, labels)
    /\ lookup_result' = NotCalled
    /\ UNCHANGED <<lookup_args, widgetVars>>

\* One call of the lookup on the catalog.
Lookup(concept_name, choice_label) ==
    /\ lookup_result = NotCalled
    /\ lookup_args' = [concept_name |-> concept_name, choice_label |-> choice_label]
    /\ lookup_result' = _find_characteristics_from_concept_name_and_choice(
                            concept_name, choice_label, characteristics_config)
    /\ UNCHANGED <<characteristics_config, widgetVars>>

LookupNext ==
    \/ LoadCatalog
    \/ \E concept_name \in CatalogNames, choice_label \in RequestedLabels :
           Lookup(concept_name, choice_label)

SpecLookup == LookupInit /\ [][LookupNext]_vars

\* The (entry, choice) positions of the catalog that carry the requested pair.
Hits ==
    {h \in (1..Len(characteristics_config)) \X (1..MaxChoices + 1) :
        /\ h[2] <= Len(characteristics_config[h[1]].choices)
        /\ characteristics_config[h[1]].ConceptNameCodeSequence.CodeMeaning
               = lookup_args.concept_name
        /\ characteristics_config[h[1]].choices[h[2]].CodeMeaning
               = lookup_args.choice_label}

\* The code pair the catalog defines at a position.
PairAt(h) ==
    [kind |-> "Found",
     ConceptNameCodeSequence |-> characteristics_config[h[1]].ConceptNameCodeSequence,
     ConceptCodeSequence |-> characteristics_config[h[1]].choices[h[2]]]

\* The entries of the catalog that carry the requested concept name.
NameHits ==
    {m \in 1..Len(characteristics_config) :
        characteristics_config[m].ConceptNameCodeSequence.CodeMeaning
            = lookup_args.concept_name}

Called == lookup_result.kind \notin {"NotLoaded", "NotCalled"}

\* C4: for a (concept, label) pair present in the catalog with label other than
\* "N/A", the lookup returns a code pair the catalog defines for that concept
\* and that label: the pair of that entry when the pair occurs once.
C4_ResolvesPresentPair ==
    (Called /\ Hits # {} /\ lookup_args.choice_label # NA)
        => lookup_result \in {PairAt(h) : h \in Hits}

C4_Witness ==
    /\ Called /\ lookup_args.choice_label # NA
    /\ \E h \in Hits : h[1] = 2 /\ h[2] = 2 /\ lookup_result = PairAt(h)

\* C5: the label "N/A" resolves to None for every concept and every catalog,
\* and never raises.
C5_NAIsAbsent ==
    (Called /\ lookup_args.choice_label = NA) => lookup_result = None

C5_Witness ==
    /\ Called /\ lookup_args.choice_label = NA /\ lookup_result = None
    /\ Hits # {}

\* C6: a label other than "N/A" whose concept name is not in the catalog, or
\* whose concept is there without that label, ends in the ValueError that
\* names the concept name and the label.
C6_MissRaisesNamingBoth ==
    (Called /\ lookup_args.choice_label # NA /\ Hits = {})
        => lookup_result =
               LookupValueError(lookup_args.concept_name, lookup_args.choice_label)

C6_Witness ==
    /\ Called /\ lookup_result.kind = "ValueError"
    /\ NameHits # {}
    /\ lookup_result.concept_name = "Shape" /\ lookup_result.choice_label = "Irregular"

\* The least element of a non-empty set of positions, entries first.
FirstHit(hits) ==
    CHOOSE h \in hits : \A g \in hits : h[1] < g[1] \/ (h[1] = g[1] /\ h[2] <= g[2])

\* C7 as claimed: the first entry with the requested concept name decides the
\* result alone, a pair when its choices hold the label and the ValueError when
\* they do not.
C7_FirstNameDecides ==
    (Called /\ lookup_args.choice_label # NA /\ NameHits # {})
        => LET first == CHOOSE m \in NameHits : \A x \in NameHits : m <= x
               own == {h \in Hits : h[1] = first}
           IN  lookup_result =
                   IF own # {} THEN PairAt(FirstHit(own))
                   ELSE LookupValueError(lookup_args.concept_name,
                                         lookup_args.choice_label)

\* C7 (amended): the first entry that carries both the concept name and the
\* label wins, with its first such choice; entries with the same concept name
\* before it are passed over, entries after it change nothing.
C7_FirstEntryWithLabelWins ==
    (Called /\ lookup_args.choice_label # NA /\ Hits # {})
        => lookup_result = PairAt(FirstHit(Hits))

C7_Witness ==
    /\ Called /\ Cardinality(NameHits) = 2
    /\ \A h \in Hits : h[1] = 2
    /\ lookup_result.kind = "Found"

-----------------------------------------------------------------------------
(* Claims about the report save *)

\* C1: a save is all-or-nothing on the DICOM database: when saveReport has
\* ended, this run has put the SEG and the SR with the merged characteristics
\* into the database, or nothing at all.
C1_SaveAllOrNothing ==
    save_run.ran =>
        \/ save_run.database = {}
        \/ save_run.database = {"SEG", "SR"} /\ save_run.sr_saved

\* The tid1500writer completed, so createDICOMSR reached its count check.
ReachedCountCheck == save_run.ran /\ save_run.encoded

StoreSize == Cardinality(DOMAIN segment_characteristics)

\* C2: when the SEG's segment count differs from the number of store keys, the
\* save fails with the count ValueError before the SR is read, and the SR file
\* stays as the encoder wrote it: nothing appended, no save_as.
C2_MismatchFailsBeforeSRRead ==
    (ReachedCountCheck /\ save_run.seg_count # StoreSize)
        => /\ save_run.result = "failure"
           /\ save_run.err = "count"
           /\ ~save_run.sr_read
           /\ ~save_run.sr_saved
           /\ save_run.sr_file = save_run.encoder_sr

C2_Witness ==
    /\ ReachedCountCheck
    /\ save_run.seg_count = 2 /\ StoreSize = 1
    /\ \E k \in DOMAIN segment_characteristics :
           "Shape" \in DOMAIN segment_characteristics[k]
           /\ segment_characteristics[k]["Shape"] = "Round"
    /\ save_run.err = "count"

\* The store key with i - 1 smaller keys.
KeyAt(i) ==
    CHOOSE k \in DOMAIN segment_characteristics :
        Cardinality({j \in DOMAIN segment_characteristics : j < k}) = i - 1

\* The items the i-th content item of the SR file holds beyond the encoder's.
Gained(i) ==
    SubSeq(save_run.sr_file[i], Len(save_run.encoder_sr[i]) + 1,
           Len(save_run.sr_file[i]))

\* The concepts of a store entry whose label is a selection.
Selected(entry) == {name \in DOMAIN entry : entry[name] # NA}

IsCodedItem(item, name, label) ==
    /\ item.RelationshipType = "CONTAINS"
    /\ item.ValueType = "CODE"
    /\ Len(item.ConceptNameCodeSequence) = 1
    /\ Len(item.ConceptCodeSequence) = 1
    /\ item.ConceptNameCodeSequence[1].CodeMeaning = name
    /\ item.ConceptCodeSequence[1].CodeMeaning = label

\* The SR file holds the encoder's items and, in its i-th content item, exactly
\* one coded item for each selection of the entry with the i-th smallest key.
MergedPerSegment ==
    /\ save_run.sr_saved
    /\ Len(save_run.sr_file) = save_run.seg_count
    /\ \A i \in 1..save_run.seg_count :
           LET entry == segment_characteristics[KeyAt(i)]
           IN  /\ SubSeq(save_run.sr_file[i], 1, Len(save_run.encoder_sr[i]))
                      = save_run.encoder_sr[i]
               /\ Len(Gained(i)) = Cardinality(Selected(entry))
               /\ \A name \in Selected(entry) :
                      \E g \in 1..Len(Gained(i)) :
                          IsCodedItem(Gained(i)[g], name, entry[name])

\* C3 as claimed: on matched counts the merge succeeds and every per-segment
\* content item gains exactly the coded items of its segment's selections.
C3_MatchedCountsMergeSucceeds ==
    (ReachedCountCheck /\ save_run.seg_count = StoreSize) => MergedPerSegment

\* Every selection in the store is a (concept, label) pair of the catalog.
StoreResolves ==
    \A k \in DOMAIN segment_characteristics :
        \A name \in Selected(segment_characteristics[k]) :
            \E m \in 1..Len(characteristics_config) :
                /\ characteristics_config[m].ConceptNameCodeSequence.CodeMeaning = name
                /\ \E n \in 1..Len(characteristics_config[m].choices) :
                       characteristics_config[m].choices[n].CodeMeaning
                           = segment_characteristics[k][name]

\* C3 (amended): on matched counts, and with every selection in the store a
\* pair of the catalog, the merge succeeds and every per-segment content item
\* gains exactly the coded items of its segment's selections.
C3_MatchedCountsMergeResolved ==
    (ReachedCountCheck /\ save_run.seg_count = StoreSize /\ StoreResolves)
        => MergedPerSegment

C3_Witness ==
    /\ ReachedCountCheck /\ save_run.seg_count = 2 /\ StoreSize = 2
    /\ save_run.result = "success"
    /\ Len(Gained(1)) = 1 /\ Len(Gained(2)) = 2

-----------------------------------------------------------------------------
(* Claims about the store *)

\* C8: the prune step removes exactly the entries whose key is not among the
\* segment identifiers of the run and leaves every other entry as it was: same
\* key, same characteristics map, in the pruned store and in the store the run
\* ends with.
C8_PruneRemovesExactlyMissing ==
    last_update.ran =>
        /\ DOMAIN last_update.new_segment_characteristics
               = (DOMAIN last_update.before) \cap last_update.segment_ids
        /\ \A k \in DOMAIN last_update.new_segment_characteristics :
               /\ last_update.new_segment_characteristics[k] = last_update.before[k]
               /\ k \in DOMAIN segment_characteristics
               /\ segment_characteristics[k] = last_update.before[k]

C8_Witness ==
    /\ last_update.ran
    /\ (DOMAIN last_update.before) \ last_update.segment_ids # {}
    /\ \E k \in DOMAIN last_update.new_segment_characteristics :
           /\ last_update.new_segment_characteristics[k] # EmptyDict
           /\ segment_characteristics[k] = last_update.before[k]

\* C9: the characteristics entry of a segment persists, with its values, as
\* long as the segment exists in the segmentation: a store refresh keeps the
\* entry of every segment that is still there.
C9_EntryPersistsWhileSegmentExists ==
    last_update.ran =>
        \A k \in DOMAIN last_update.before :
            segmentation[k] # "absent"
                => /\ k \in DOMAIN segment_characteristics
                   /\ segment_characteristics[k] = last_update.before[k]

\* C10: selecting another measurement report, or none, clears the store: after
\* the selection no segment of the newly selected report carries
\* characteristics that were in the store under the report selected before.
C10_StoreClearedOnReportSelection ==
    [][tableNode' # tableNode
          => \A k \in DOMAIN segment_characteristics' :
                 segmentation'[k] # "absent"
                     => segment_characteristics'[k] = EmptyDict]_vars

-----------------------------------------------------------------------------
(* Claims about the refresh of the store *)

\* The single-shot timer, once started, fires: updateSegmentationCharacteristics
\* runs when a started timer is not fired on a missing node.
SpecFair == Spec /\ WF_vars(\E checked \in BOOLEAN : TimerFired(checked))

-----------------------------------------------------------------------------
(* Claims about the save and the store *)

C13_SaveLeavesStoreUnchanged ==
    [][save_run'.ran => segment_characteristics' = segment_characteristics]_vars

C13_Witness ==
    /\ save_run.ran /\ save_run.completed /\ save_run.result = "success"
    /\ StoreSize = 1
    /\ \E k \in DOMAIN segment_characteristics :
           Selected(segment_characteristics[k]) # {}

\* C14: every fault of a save (export, encoder, count, lookup) is surfaced as
\* a failed save: saveReport returns (False, reason); no fault leaves saveReport
\* as an exception and none yields success.
C14_FaultsSurfaceAsFailedSave ==
    (save_run.ran /\ save_run.err # "none") => save_run.result = "failure"

\* C15: on every way out of a saveReport that created an exporter (success,
\* returned failure, exception), the exporter's cleanup has been called exactly
\* once and the widget's exporter handle is None.
C15_ExporterCleanedUpOnce ==
    (save_run.ran /\ save_run.exporter_created)
        => /\ save_run.cleanup_calls = 1
           /\ save_run.dicomSegmentationExporter = "None"

C15_Witness ==
    /\ save_run.ran /\ save_run.exporter_created
    /\ save_run.result = "raised"
    /\ save_run.cleanup_calls = 1

\* A save that did not succeed: a returned failure or an exception.
SaveFailed == save_run.ran /\ save_run.result # "success"

\* C16: after any failed save, from either button and for any fault or a
\* cancelled metadata dialog, the save and the complete button are both
\* enabled and the report is not marked readonly.
C16_FailedSaveKeepsButtonsEnabled ==
    SaveFailed
        => /\ saveReportButton
           /\ completeReportButton
           /\ tableNode \in Reports => ~readonly[tableNode]

\* C17: a lookup fault in the merge (counts match, some stored pair is not in
\* the catalog) aborts the save: saveReport returns the failure, the SR file
\* stays as the encoder wrote it whatever was appended in memory, and the
\* indexer adds no file.
C17_LookupFaultAbortsSave ==
    (ReachedCountCheck /\ save_run.seg_count = StoreSize /\ ~StoreResolves)
        => /\ save_run.result = "failure"
           /\ save_run.err = "lookup"
           /\ save_run.error.kind = "ValueError"
           /\ save_run.sr_file = save_run.encoder_sr
           /\ ~save_run.sr_saved
           /\ save_run.indexed = {}

C17_Witness ==
    /\ ReachedCountCheck /\ save_run.err = "lookup"
    /\ save_run.sr_ds # save_run.encoder_sr
    /\ save_run.sr_file = save_run.encoder_sr

\* C18: after a run of updateSegmentationCharacteristics the keys of the store
\* are exactly the label values of the segments the run enumerated; a segment
\* seen for the first time has an empty entry, a segment already in the store
\* has the entry it had, and there is one row per key.
C18_StoreKeysAreEnumeratedSegments ==
    last_update.ran =>
        /\ DOMAIN segment_characteristics = last_update.segment_ids
        /\ \A k \in DOMAIN segment_characteristics :
               segment_characteristics[k] =
                   IF k \in DOMAIN last_update.before
                   THEN last_update.before[k] ELSE EmptyDict
        /\ Len(last_update.rows) = StoreSize
        /\ {last_update.rows[i] : i \in 1..Len(last_update.rows)}
               = DOMAIN segment_characteristics

C18_Witness ==
    /\ last_update.ran
    /\ \E k \in DOMAIN segment_characteristics :
           k \notin DOMAIN last_update.before
    /\ \E k \in DOMAIN segment_characteristics :
           /\ k \in DOMAIN last_update.before
           /\ segment_characteristics[k] # EmptyDict

\* C19: when createDICOMSR reads the store, the keys of the store are the
\* segments of the segmentation, whatever the interleaving of segment events,
\* timer and clicks. Stated for segmentations without a hidden segment, where
\* a refresh would make the two equal.
C19_SaveReadsFreshStore ==
    (ReachedCountCheck /\ ~hiddenSegmentsAvailable(segmentation))
        => DOMAIN segment_characteristics = AllSegments(segmentation)

\* C20: a save that starts right after a refresh of the store passes the count
\* check of createDICOMSR, whether the user declines or accepts the export of
\* the hidden segments.
C20_CountCheckPassesAfterRefresh ==
    [][(last_update.ran /\ save_run'.ran /\ save_run'.encoded)
          => save_run'.err # "count"]_vars

-----------------------------------------------------------------------------
(* Claims about the dialog, the timer and the buttons *)

\* C21: every (concept name, choice label) pair the dialog has put into the
\* store is labelled "N/A" or is found by the lookup in the catalog the dialog
\* was built from: no stored pair ends in the ValueError.
C21_StoredPairsResolve ==
    \A k \in DOMAIN segment_characteristics :
        \A name \in DOMAIN segment_characteristics[k] :
            LET choice_label == segment_characteristics[k][name]
            IN  \/ choice_label = NA
                \/ _find_characteristics_from_concept_name_and_choice(
                       name, choice_label, characteristics_config).kind = "Found"

\* C23: while a report that Complete Report made read-only stays selected,
\* the Save Report and Complete Report buttons are disabled, whatever events
\* have arrived since.
C23_ReadonlyReportKeepsButtonsDisabled ==
    (tableNode \in Reports /\ readonly[tableNode])
        => (~saveReportButton /\ ~completeReportButton)

\* C24: a save whose metadata dialog was not confirmed returns the failure
\* with the cancellation message and does nothing else: no exporter is
\* created and none is cleaned up, no SEG is exported, no SR is encoded, read
\* or written, nothing is inserted into the DICOM database or indexed, and the
\* store is as it was before the click.
C24_CancelledSaveHasNoEffect ==
    [][(save_run'.ran /\ ~save_run'.confirmed) =>
          /\ save_run' = [NoSave EXCEPT !.ran = TRUE,
                                        !.completed = save_run'.completed,
                                        !.result = "failure",
                                        !.err = "canceled"]
          /\ segment_characteristics' = segment_characteristics]_vars

C24_Witness ==
    /\ save_run.ran
    /\ ~save_run.confirmed
    /\ segment_characteristics # EmptyDict
    /\ AllSegments(segmentation) # {}

\* A segment event was accepted by onSegmentationNodeChanged in the last step:
\* the import widget was not busy and the timer was started or restarted.
AcceptedEvent == last_update.event # "none" /\ delayedAutoUpdateTimer

\* C22 as stated: every accepted segment event is eventually followed by a
\* refresh of the store.
C22_AcceptedEventLeadsToRefresh == AcceptedEvent ~> last_update.ran

\* C22: every accepted segment event is followed by a refresh of the store for
\* as long as a report stays selected; a refresh consumes a started timer, so
\* the events that arrived since the refresh before share one refresh; and the
\* refresh gives every visible segment its entry and keeps no other, whether
\* the statistics were recomputed before it (Auto Update checked) or not.
C22_DebouncedRefresh ==
    /\ AcceptedEvent ~> (last_update.ran \/ tableNode = NoNode)
    /\ [][last_update'.ran =>
             (delayedAutoUpdateTimer /\ ~delayedAutoUpdateTimer')]_vars
    /\ [](last_update.ran =>
             /\ DOMAIN segment_characteristics = getVisibleSegments(segmentation)
             /\ segment_characteristics =
                    GetOrCreate(Prune(last_update.before, last_update.segment_ids),
                                last_update.segment_ids))

C22_Witness ==
    /\ last_update.ran
    /\ ~last_update.statistics
    /\ tableNode # NoNode
    /\ DOMAIN last_update.before # DOMAIN segment_characteristics
    /\ ~delayedAutoUpdateTimer

\* C25: only a refresh and a dialog closed with OK change the store, so a
\* dialog closed without OK leaves the whole store as it was; a dialog closed
\* with OK leaves the keys of the store and every entry but the one of the
\* segment it was opened for as they were, and that entry holds, for every
\* concept name of the catalog and for no other name, the label its combo box
\* showed; OK pressed on an entry the dialog has written before, with every
\* combo box as the dialog opened it, leaves the store as it was.
C25_DialogWritesOnlyItsEntryOnOK ==
    [][IF dialog'.accepted
       THEN LET segment_index == dialog'.segment_index
                entry == segment_characteristics[segment_index]
                written == segment_characteristics'[segment_index]
            IN  /\ segment_index \in DOMAIN segment_characteristics
                /\ DOMAIN segment_characteristics' = DOMAIN segment_characteristics
                /\ \A k \in DOMAIN segment_characteristics \ {segment_index} :
                       segment_characteristics'[k] = segment_characteristics[k]
                /\ DOMAIN written = ConceptNames(characteristics_config)
                /\ \A name \in DOMAIN written :
                       /\ written[name] = dialog'.selection[name]
                       /\ written[name] \in CurrentTexts(
                              LastWidget(characteristics_config, name))
                /\ (/\ entry # EmptyDict
                    /\ dialog'.selection =
                           PreSelected(entry, characteristics_config))
                       => written = entry
       ELSE last_update'.ran \/ segment_characteristics' = segment_characteristics]_vars

\* OK was pressed in the dialog of a segment, next to the entry of another
\* segment, with a combo box on a label that is not its first item: the label
\* a dialog reopened on this entry pre-selects.
C25_Witness ==
    /\ dialog.accepted
    /\ Cardinality(DOMAIN segment_characteristics) > 1
    /\ dialog.selection =
           PreSelected(segment_characteristics[dialog.segment_index],
                       characteristics_config)
    /\ \E name \in DOMAIN segment_characteristics[dialog.segment_index] :
           LET characteristic == LastWidget(characteristics_config, name)
           IN  /\ Len(characteristic.choices) > 1
               /\ segment_characteristics[dialog.segment_index][name] #
                      characteristic.choices[1].CodeMeaning

=============================================================================
